---- MODULE Spec2Model ----
(***************************************************************************)
(* Model of scripts/benchmark.c: the benchmarking harness that runs the    *)
(* rust-ml-benchmark executable num_iterations times, parses the metric    *)
(* blocks of its output, keeps one running average per phase and appends   *)
(* one CSV row per accepted block.                                         *)
(*                                                                         *)
(* Representation choices:                                                 *)
(*  - a C float is an exact rational <<numerator, denominator>> in lowest  *)
(*    terms (floating-point rounding is not modelled);                     *)
(*  - a line of text is a record: the set of marker substrings it contains *)
(*    (what strstr can find in it), and the number and unit token that     *)
(*    follow the metric prefix (what sscanf / atol read there);            *)
(*  - a file is the sequence of its lines.                                 *)
(***************************************************************************)
EXTENDS Integers, Sequences, FiniteSets, TLC

\* ------------------------------------------------------------------ bounds
\* Largest iteration count given on the command line.
MaxIter == 3
\* The benchmarked executable reports the values 1..MaxVal.
MaxVal == 2

\* ------------------------------------------------------- exact "float"s
RECURSIVE GCD(_, _)
GCD(a, b) == IF b = 0 THEN a ELSE GCD(b, a % b)

Abs(n) == IF n < 0 THEN -n ELSE n

\* The rational n/d (d # 0) in lowest terms with a positive denominator.
Norm(n, d) ==
    LET g == GCD(Abs(n), Abs(d))
        s == IF d < 0 THEN -1 ELSE 1
    IN  <<(s * n) \div g, (s * d) \div g>>

F(n) == <<n, 1>>
FAdd(x, y) == Norm(x[1] * y[2] + y[1] * x[2], x[2] * y[2])
FMulInt(c, x) == Norm(c * x[1], x[2])
FDivInt(x, c) == Norm(x[1], x[2] * c)

\* C integer division truncates toward zero.
CDiv(a, b) ==
    LET q == Abs(a) \div Abs(b)
    IN  IF (a < 0) = (b < 0) THEN q ELSE -q

\* ----------------------------------------------------------------- text
\* The value sscanf sees when no number can be read.
NoNumber == <<0, 0>>

WALL == "Wall Clock Time:"
USER == "User time:"
SYSTEM == "System time:"
CPU == "CPU Usage:"
RSS == "Max RSS:"
TERMINATOR == "======================================="
Fields == {WALL, USER, SYSTEM, CPU, RSS}

Line(contains, number, unit) ==
    [contains |-> contains, number |-> number, unit |-> unit]

\* typedef struct Metrics, without the unused name pointer.
ZeroMetrics ==
    [user_time |-> F(0), system_time |-> F(0), cpu_usage |-> F(0),
     wall_clock |-> F(0), max_rss |-> 0]

\* parse_time_line: <<return value, *val afterwards>>.
parse_time_line(line, prefix, val) ==
    IF prefix \notin line.contains THEN <<0, val>>
    ELSE IF line.number = NoNumber THEN <<0, val>>
    ELSE IF line.unit = "s" \/ line.unit = "sec"
         THEN <<1, FMulInt(1000, line.number)>>
    ELSE IF line.unit = "µs" \/ line.unit = "microseconds"
         THEN <<1, FDivInt(line.number, 1000)>>
    ELSE <<1, line.number>>

\* parse_cpu_line: number stays 0.0f when sscanf reads nothing.
parse_cpu_line(line, prefix, val) ==
    IF prefix \notin line.contains THEN <<0, val>>
    ELSE IF line.number = NoNumber THEN <<1, F(0)>>
    ELSE <<1, line.number>>

\* atol: the integer part of the number that follows, 0 when there is none.
atol(number) ==
    IF number = NoNumber THEN 0 ELSE CDiv(number[1], number[2])

parse_rss(line, rss) ==
    IF RSS \in line.contains THEN <<1, atol(line.number)>> ELSE <<0, rss>>

\* A variant that forgets the weight of the old average.
calculate_new_average_unweighted(old_avg, currentCount, current_value) ==
    IF currentCount = 0 THEN current_value
    ELSE FDivInt(FAdd(old_avg, current_value), 2)

calculate_new_average(old_avg, currentCount, current_value) ==
    IF currentCount = 0 THEN current_value
    ELSE FDivInt(FAdd(FMulInt(currentCount, old_avg), current_value),
                 currentCount + 1)

\* A variant that rounds the quotient up instead of truncating it.
rss_new_average_rounded_up(old_rss, currentCount, rss) ==
    CDiv((currentCount - 1) * old_rss + rss + currentCount - 1, currentCount)

\* The integer update of avg_metrics->max_rss.
rss_new_average(old_rss, currentCount, rss) ==
    CDiv((currentCount - 1) * old_rss + rss, currentCount)

\* The while loop of parse_metrics_block over the lines left in fp.
RECURSIVE BlockLoop(_, _, _, _, _)
BlockLoop(fp, out, avg_metrics, currentCount, found) ==
    IF fp = <<>>
    THEN [fp |-> fp, out |-> out, avg |-> avg_metrics, found |-> found]
    ELSE
    LET line == Head(fp)
        rest == Tail(fp)
    IN  IF WALL \in line.contains THEN
            LET o == [out EXCEPT !.wall_clock = parse_time_line(line, WALL, @)[2]]
            IN  BlockLoop(rest, o,
                    [avg_metrics EXCEPT !.wall_clock =
                        calculate_new_average(@, currentCount - 1, o.wall_clock)],
                    currentCount, found + 1)
        ELSE IF USER \in line.contains THEN
            LET o == [out EXCEPT !.user_time = parse_time_line(line, USER, @)[2]]
            IN  BlockLoop(rest, o,
                    [avg_metrics EXCEPT !.user_time =
                        calculate_new_average(@, currentCount - 1, o.user_time)],
                    currentCount, found + 1)
        ELSE IF SYSTEM \in line.contains THEN
            LET o == [out EXCEPT !.system_time = parse_time_line(line, SYSTEM, @)[2]]
            IN  BlockLoop(rest, o,
                    [avg_metrics EXCEPT !.system_time =
                        calculate_new_average(@, currentCount - 1, o.system_time)],
                    currentCount, found + 1)
        ELSE IF CPU \in line.contains THEN
            LET o == [out EXCEPT !.cpu_usage = parse_cpu_line(line, CPU, @)[2]]
            IN  BlockLoop(rest, o,
                    [avg_metrics EXCEPT !.cpu_usage =
                        calculate_new_average(@, currentCount - 1, o.cpu_usage)],
                    currentCount, found + 1)
        ELSE IF RSS \in line.contains THEN
            LET o == [out EXCEPT !.max_rss = parse_rss(line, @)[2]]
            IN  BlockLoop(rest, o,
                    [avg_metrics EXCEPT !.max_rss =
                        rss_new_average(@, currentCount, o.max_rss)],
                    currentCount, found + 1)
        ELSE IF TERMINATOR \in line.contains THEN
            [fp |-> rest, out |-> out, avg |-> avg_metrics, found |-> found]
        ELSE BlockLoop(rest, out, avg_metrics, currentCount, found)

\* parse_metrics_block: the stream, *out and *avg_metrics afterwards, and
\* the return value ret.
parse_metrics_block(fp, avg_metrics, currentCount) ==
    LET r == BlockLoop(fp, ZeroMetrics, avg_metrics, currentCount, 0)
    IN  [fp |-> r.fp, out |-> r.out, avg |-> r.avg,
         ret |-> IF r.found = 5 THEN 1 ELSE 0]

\* ------------------------------------------------------------ CSV sinks
\* The %.Nf conversion: x in units of 10^-digits, rounded to nearest,
\* a tie to the even neighbour.
RECURSIVE Pow10(_)
Pow10(digits) == IF digits = 0 THEN 1 ELSE 10 * Pow10(digits - 1)

FormatFloat(x, digits) ==
    LET n == x[1] * Pow10(digits)
        q == n \div x[2]
        r == n % x[2]
    IN  IF 2 * r > x[2] \/ (2 * r = x[2] /\ q % 2 = 1) THEN q + 1 ELSE q

HeaderRow ==
    [kind |-> "header",
     text |-> "user_time,system_time,cpu_percent,wallclock_time,max_rss"]

\* A file after write_csv_header.
write_csv_header(file) == Append(file, HeaderRow)

\* A variant that writes the header again before every row.
write_csv_repeating_header(file, m) ==
    Append(Append(file, HeaderRow),
        [kind |-> "row",
         user_time |-> FormatFloat(m.user_time, 3),
         system_time |-> FormatFloat(m.system_time, 3),
         cpu_percent |-> FormatFloat(m.cpu_usage, 2),
         wallclock_time |-> FormatFloat(m.wall_clock, 3),
         max_rss |-> m.max_rss])

\* A variant that prints the wall clock time before the CPU usage.
write_csv_wall_before_cpu(file, m) ==
    Append(file,
        [kind |-> "row",
         user_time |-> FormatFloat(m.user_time, 3),
         system_time |-> FormatFloat(m.system_time, 3),
         cpu_percent |-> FormatFloat(m.wall_clock, 2),
         wallclock_time |-> FormatFloat(m.cpu_usage, 3),
         max_rss |-> m.max_rss])

\* A file after write_csv: time columns in 1/1000, the CPU column in 1/100.
write_csv(file, m) ==
    Append(file,
        [kind |-> "row",
         user_time |-> FormatFloat(m.user_time, 3),
         system_time |-> FormatFloat(m.system_time, 3),
         cpu_percent |-> FormatFloat(m.cpu_usage, 2),
         wallclock_time |-> FormatFloat(m.wall_clock, 3),
         max_rss |-> m.max_rss])

\* The cells of a data row in the order in which the format string of
\* write_csv prints them.
Cells(row) ==
    <<row.user_time, row.system_time, row.cpu_percent, row.wallclock_time,
      row.max_rss>>

\* ---------------------------------------------------------- phase router
\* The else-if chain of main's read loop, in its order: the section header
\* searched for, and the phase whose average and CSV file the branch uses.
Router ==
    << [header |-> "loadmodel Metrics",       phase |-> "loadmodel"],
       [header |-> "readimg Metrics",         phase |-> "readimg"],
       [header |-> "RED BOX Phase Metrics",   phase |-> "redbox"],
       [header |-> "Pre-processing Metrics",  phase |-> "readimg_greenbox"],
       [header |-> "Inference Metrics",       phase |-> "inference"],
       [header |-> "Post-processing Metrics", phase |-> "postprocessing"],
       [header |-> "GREEN BOX Phase Metrics", phase |-> "greenbox"],
       [header |-> "Total Metrics",           phase |-> "total"] >>

Phases == {Router[k].phase : k \in DOMAIN Router}

NoPhase == "none"

\* The phase of the first branch of the chain that the line satisfies.
Route(line) ==
    LET hits == {k \in DOMAIN Router : Router[k].header \in line.contains}
    IN  IF hits = {} THEN NoPhase
        ELSE Router[CHOOSE k \in hits : \A j \in hits : k <= j].phase

HeaderOf(p) == (CHOOSE k \in DOMAIN Router : Router[k].phase = p)

\* ------------------------------------------- the benchmarked executable
\* Lines the executable prints. A report carries the value v as
\* User time v ms, System time 2v ms, CPU Usage 10v %, Wall Clock Time 3v ms
\* and Max RSS v*v.
UserLine(v) == Line({USER}, F(v), "ms")
SystemLine(v) == Line({SYSTEM}, F(2 * v), "ms")
CpuLine(v) == Line({CPU}, F(10 * v), "%")
WallLine(v) == Line({WALL}, F(3 * v), "ms")
RssLine(v) == Line({RSS}, F(v * v), "")
HeaderLine(p) == Line({Router[HeaderOf(p)].header}, NoNumber, "")
EndLine == Line({TERMINATOR}, NoNumber, "")
TextLine == Line({}, NoNumber, "")

Five(v) == <<WallLine(v), UserLine(v), SystemLine(v), CpuLine(v), RssLine(v)>>

\* The phase after p in the router's order, the first after the last.
OtherPhase(p) == Router[(HeaderOf(p) % Len(Router)) + 1].phase

\* One section of p with each field once.
Complete(p, v) == <<HeaderLine(p)>> \o Five(v) \o <<EndLine>>
\* A section of p with all five fields, User time twice, then a section of
\* the next phase with each field once and other text inside.
Repeated(p) ==
    <<HeaderLine(p), UserLine(1)>> \o Five(2)
    \o <<EndLine, HeaderLine(OtherPhase(p)), WallLine(1), UserLine(1), TextLine,
         SystemLine(1), CpuLine(1), RssLine(1), EndLine>>
\* A section of p with five metric lines (User time twice, no Max RSS), then
\* a section of the next phase with one field only, ended by the end of the
\* output.
RepeatedMissing(p) ==
    <<TextLine, HeaderLine(p), UserLine(1), WallLine(2), UserLine(2),
      SystemLine(2), CpuLine(2), EndLine, TextLine, HeaderLine(OtherPhase(p)),
      UserLine(1)>>

\* What one successful invocation may leave in tmp_output.txt.
Reports(p) ==
    {Complete(p, v) : v \in 1..MaxVal} \cup {Repeated(p), RepeatedMissing(p)}

\* ------------------------------------------------------------ arguments
\* atoi on a string given as its characters: an optional sign, then the
\* leading digits.
DigitValue(c) ==
    CASE c = "0" -> 0 [] c = "1" -> 1 [] c = "2" -> 2 [] c = "3" -> 3
      [] c = "4" -> 4 [] c = "5" -> 5 [] c = "6" -> 6 [] c = "7" -> 7
      [] c = "8" -> 8 [] c = "9" -> 9 [] OTHER -> -1

RECURSIVE LeadingDigits(_, _)
LeadingDigits(s, acc) ==
    IF s = <<>> \/ DigitValue(Head(s)) < 0 THEN acc
    ELSE LeadingDigits(Tail(s), 10 * acc + DigitValue(Head(s)))

atoi(s) ==
    IF s = <<>> THEN 0
    ELSE IF Head(s) = "-" THEN -LeadingDigits(Tail(s), 0)
    ELSE IF Head(s) = "+" THEN LeadingDigits(Tail(s), 0)
    ELSE LeadingDigits(s, 0)

DigitChar(n) == CHOOSE c \in {"0", "1", "2", "3", "4", "5", "6", "7", "8", "9"} :
                    DigitValue(c) = n

\* The command lines tried: argv[0] and up to three arguments.
CommandLines ==
    {<<"benchmark", <<DigitChar(n)>>, "model.onnx", "image.jpg">> : n \in 0..MaxIter}
    \cup {<<"benchmark", <<"-", "1">>, "model.onnx", "image.jpg">>,
          <<"benchmark", <<"x">>, "model.onnx", "image.jpg">>,
          <<"benchmark", <<"1">>, "", "image.jpg">>,
          <<"benchmark", <<"1">>, "model.onnx", "">>,
          <<"benchmark", <<"1">>, "model.onnx">>}

\* check_args: <<return value, num_iterations>>.
check_args(args) ==
    IF Len(args) # 4 THEN <<1, 0>>
    ELSE IF atoi(args[2]) <= 0 THEN <<1, atoi(args[2])>>
    ELSE IF args[3] = "" \/ args[4] = "" THEN <<1, atoi(args[2])>>
    ELSE <<0, atoi(args[2])>>

\* ---------------------------------------------------------------- state
VARIABLES
    pc,             \* where main is
    argv,           \* the command line
    reported,       \* the phase whose section the executable under test prints
    num_iterations,
    i,
    current_count,
    avg,            \* avg_<phase>_metrics, by phase
    csv,            \* the lines of ./bench/<phase>.csv, by phase
    tmp_output,     \* the lines of tmp_output.txt
    fp,             \* the lines of tmp_output.txt not yet read
    invocations,    \* one record per system(command) so far
    executable_exists,  \* ../target/release/rust-ml-benchmark is there
    build_status    \* what system(build_command) returned, -1 before it ran

vars == <<pc, argv, reported, num_iterations, i, current_count, avg, csv,
          tmp_output, fp, invocations, executable_exists, build_status>>

Init ==
    /\ pc = "check_args"
    /\ argv \in CommandLines
    /\ reported \in Phases
    /\ num_iterations = 0
    /\ i = 0
    /\ current_count = 0
    /\ avg = [p \in Phases |-> ZeroMetrics]
    /\ csv = [p \in Phases |-> <<>>]
    /\ tmp_output = <<>>
    /\ fp = <<>>
    /\ invocations = <<>>
    /\ executable_exists \in BOOLEAN
    /\ build_status = -1

\* main, lines 191-194.
CheckArgs ==
    /\ pc = "check_args"
    /\ LET r == check_args(argv)
       IN  IF r[1] # 0
           THEN pc' = "return_1" /\ UNCHANGED num_iterations
           ELSE pc' = "mkdir" /\ num_iterations' = r[2]
    /\ UNCHANGED <<executable_exists, build_status, argv, reported, i, current_count, avg, csv, tmp_output, fp,
                   invocations>>

\* main, lines 196-200.
MakeDirectory ==
    /\ pc = "mkdir"
    /\ \E result \in {"created", "EEXIST", "EACCES"} :
           pc' = IF result = "EACCES" THEN "return_1" ELSE "fopen_csv"
    /\ UNCHANGED <<executable_exists, build_status, argv, reported, num_iterations, i, current_count, avg, csv,
                   tmp_output, fp, invocations>>

\* main, lines 202-223: the eight fopen calls, then the eight headers.
OpenSinks ==
    /\ pc = "fopen_csv"
    /\ \E failed \in Phases \cup {NoPhase} :
           IF failed # NoPhase
           THEN pc' = "return_1" /\ UNCHANGED csv
           ELSE /\ pc' = "build"
                /\ csv' = [p \in Phases |-> write_csv_header(<<>>)]
    /\ UNCHANGED <<executable_exists, build_status, argv, reported, num_iterations, i, current_count, avg,
                   tmp_output, fp, invocations>>

\* A variant that goes on to the loop whatever cargo build returned.
BuildIgnoringFailure ==
    /\ pc = "build"
    /\ \E status \in {0, 1} :
           /\ build_status' = status
           /\ executable_exists' = (status = 0 \/ executable_exists)
           /\ pc' = "for"
           /\ i' = 1
    /\ UNCHANGED <<argv, reported, num_iterations, current_count, avg, csv,
                   tmp_output, fp, invocations>>

\* main, lines 225-236: cargo build, then the loop's initialisation.
Build ==
    /\ pc = "build"
    /\ \E status \in {0, 1} :
           /\ build_status' = status
           /\ executable_exists' = (status = 0 \/ executable_exists)
           /\ IF status # 0
              THEN pc' = "return_1" /\ UNCHANGED i
              ELSE pc' = "for" /\ i' = 1
    /\ UNCHANGED <<argv, reported, num_iterations, current_count, avg, csv,
                   tmp_output, fp, invocations>>

\* A loop that never counts its iterations.
EnterIterationWithoutCount ==
    /\ pc = "for"
    /\ i <= num_iterations
    /\ pc' = "system"
    /\ UNCHANGED <<executable_exists, build_status, argv, reported, num_iterations, i, current_count, avg, csv,
                   tmp_output, fp, invocations>>

\* main, lines 236-243: the loop test holds.
EnterIteration ==
    /\ pc = "for"
    /\ i <= num_iterations
    /\ current_count' = current_count + 1
    /\ pc' = "system"
    /\ UNCHANGED <<executable_exists, build_status, argv, reported, num_iterations, i, avg, csv, tmp_output, fp,
                   invocations>>

\* A variant without the continue: a failed command's output is read too.
InvokeWithoutContinue ==
    /\ pc = "system"
    /\ \E status \in {0, 1} :
         \E output \in Reports(reported) :
           /\ tmp_output' = output
           /\ invocations' = Append(invocations,
                  [status |-> status, output |-> output, read |-> FALSE])
           /\ pc' = "fopen_tmp"
           /\ UNCHANGED i
    /\ UNCHANGED <<executable_exists, build_status, argv, reported, num_iterations, current_count, avg, csv, fp>>

\* A variant that gives the run up when the command fails.
InvokeAbortingOnFailure ==
    /\ pc = "system"
    /\ \E status \in {0, 1} :
         \E output \in (IF status = 0 THEN Reports(reported) ELSE {<<>>}) :
           /\ tmp_output' = output
           /\ invocations' = Append(invocations,
                  [status |-> status, output |-> output, read |-> FALSE])
           /\ pc' = IF status # 0 THEN "return_1" ELSE "fopen_tmp"
           /\ UNCHANGED i
    /\ UNCHANGED <<executable_exists, build_status, argv, reported,
                   num_iterations, current_count, avg, csv, fp>>

\* main, lines 245-249: run the executable, its output redirected.
Invoke ==
    /\ pc = "system"
    /\ \E status \in {0, 1} :
         \E output \in (IF status = 0 THEN Reports(reported) ELSE {<<>>}) :
           /\ tmp_output' = output
           /\ invocations' = Append(invocations,
                  [status |-> status, output |-> output, read |-> FALSE])
           /\ IF status # 0
              THEN pc' = "for" /\ i' = i + 1
              ELSE pc' = "fopen_tmp" /\ UNCHANGED i
    /\ UNCHANGED <<executable_exists, build_status, argv, reported, num_iterations, current_count, avg, csv, fp>>

\* main, lines 251-255.
OpenOutput ==
    /\ pc = "fopen_tmp"
    /\ \E opened \in BOOLEAN :
           IF opened
           THEN /\ pc' = "while"
                /\ fp' = tmp_output
                /\ invocations' =
                       [invocations EXCEPT ![Len(invocations)].read = TRUE]
                /\ UNCHANGED i
           ELSE /\ pc' = "for"
                /\ i' = i + 1
                /\ UNCHANGED <<fp, invocations>>
    /\ UNCHANGED <<executable_exists, build_status, argv, reported, num_iterations, current_count, avg, csv,
                   tmp_output>>

\* A router with one branch wired to its neighbour's file: the row of a
\* section goes to the table of the next phase.
ReadLineWritingNextTable ==
    /\ pc = "while"
    /\ fp # <<>>
    /\ LET p == Route(Head(fp))
       IN  IF p = NoPhase
           THEN fp' = Tail(fp) /\ UNCHANGED <<avg, csv>>
           ELSE LET r == parse_metrics_block(Tail(fp), avg[p], current_count)
                IN  /\ fp' = r.fp
                    /\ avg' = [avg EXCEPT ![p] = r.avg]
                    /\ csv' = IF r.ret # 0
                              THEN [csv EXCEPT ![OtherPhase(p)] = write_csv(@, r.out)]
                              ELSE csv
    /\ UNCHANGED <<pc, executable_exists, build_status, argv, reported, num_iterations, i, current_count,
                   tmp_output, invocations>>

\* A router whose chain ends in a catch-all: a line with no header in it is
\* taken for the header of the total section.
ReadLineDefaultingToTotal ==
    /\ pc = "while"
    /\ fp # <<>>
    /\ LET p == IF Route(Head(fp)) = NoPhase THEN "total" ELSE Route(Head(fp))
           r == parse_metrics_block(Tail(fp), avg[p], current_count)
       IN  /\ fp' = r.fp
           /\ avg' = [avg EXCEPT ![p] = r.avg]
           /\ csv' = IF r.ret # 0
                     THEN [csv EXCEPT ![p] = write_csv(@, r.out)]
                     ELSE csv
    /\ UNCHANGED <<pc, executable_exists, build_status, argv, reported, num_iterations, i, current_count,
                   tmp_output, invocations>>

\* main, lines 258-301: one turn of the read loop, with the call of
\* parse_metrics_block and of write_csv when the line is a section header.
ReadLine ==
    /\ pc = "while"
    /\ fp # <<>>
    /\ LET p == Route(Head(fp))
       IN  IF p = NoPhase
           THEN fp' = Tail(fp) /\ UNCHANGED <<avg, csv>>
           ELSE LET r == parse_metrics_block(Tail(fp), avg[p], current_count)
                IN  /\ fp' = r.fp
                    /\ avg' = [avg EXCEPT ![p] = r.avg]
                    /\ csv' = IF r.ret # 0
                              THEN [csv EXCEPT ![p] = write_csv(@, r.out)]
                              ELSE csv
    /\ UNCHANGED <<pc, executable_exists, build_status, argv, reported, num_iterations, i, current_count,
                   tmp_output, invocations>>

\* main, lines 258 and 303: fgets finds the end of the output.
CloseOutput ==
    /\ pc = "while"
    /\ fp = <<>>
    /\ pc' = "for"
    /\ i' = i + 1
    /\ UNCHANGED <<executable_exists, build_status, argv, reported, num_iterations, current_count, avg, csv,
                   tmp_output, fp, invocations>>

\* main, lines 236 and 306-323: the loop test fails.
Finalize ==
    /\ pc = "for"
    /\ i > num_iterations
    /\ pc' = "return_0"
    /\ UNCHANGED <<executable_exists, build_status, argv, reported, num_iterations, i, current_count, avg, csv,
                   tmp_output, fp, invocations>>

Next ==
    \/ CheckArgs
    \/ MakeDirectory
    \/ OpenSinks
    \/ Build
    \/ EnterIteration
    \/ Invoke
    \/ OpenOutput
    \/ ReadLine
    \/ CloseOutput
    \/ Finalize

Spec == Init /\ [][Next]_vars

\* ------------------------------------------- one output, read and parsed
\* The unit tokens and numbers a time line may carry.
UnitTokens == {"", "ms", "s", "sec", "us", "µs", "microseconds"}
Numbers == {F(10), Norm(5, 2), F(1500), F(42)}
TimeFields == {USER, SYSTEM, WALL}

\* One section of p with each field once, the line of field f carrying the
\* given number and unit token.
SectionWith(p, f, number, unit) ==
    <<HeaderLine(p)>>
    \o [k \in 1..5 |->
          IF f \in Five(1)[k].contains THEN Line({f}, number, unit)
          ELSE Five(1)[k]]
    \o <<EndLine>>

\* "Inference Metrics", User time: 10 ms, System time: 5 ms,
\* Wall Clock Time: 20 ms, CPU Usage: 75.0%, Max RSS: 1024, a row of =.
InferenceReport ==
    <<HeaderLine("inference"), Line({USER}, F(10), "ms"),
      Line({SYSTEM}, F(5), "ms"), Line({WALL}, F(20), "ms"),
      Line({CPU}, F(75), "%"), Line({RSS}, F(1024), ""), EndLine>>

ParseReports(p) ==
    {SectionWith(p, f, n, u) : f \in TimeFields, n \in Numbers, u \in UnitTokens}
    \cup {SectionWith(p, f, NoNumber, "") : f \in Fields}
    \cup {InferenceReport}

\* The state of a run of one iteration when tmp_output.txt has just been
\* opened (main, line 257), for the outputs above.
ParseInit ==
    /\ pc = "while"
    /\ argv = <<"benchmark", <<"1">>, "model.onnx", "image.jpg">>
    /\ reported \in Phases
    /\ num_iterations = 1
    /\ i = 1
    /\ current_count = 1
    /\ avg = [p \in Phases |-> ZeroMetrics]
    /\ csv = [p \in Phases |-> write_csv_header(<<>>)]
    /\ tmp_output \in ParseReports(reported)
    /\ fp = tmp_output
    /\ invocations = <<[status |-> 0, output |-> tmp_output, read |-> TRUE]>>
    /\ executable_exists = TRUE
    /\ build_status = 0

ParseNext ==
    \/ ReadLine
    \/ CloseOutput
    \/ Finalize

ParseSpec == ParseInit /\ [][ParseNext]_vars

\* =================================================================
\* Vocabulary of the properties
\* =================================================================

\* The branch of parse_metrics_block's chain a line takes.
LineKind(line) ==
    IF WALL \in line.contains THEN WALL
    ELSE IF USER \in line.contains THEN USER
    ELSE IF SYSTEM \in line.contains THEN SYSTEM
    ELSE IF CPU \in line.contains THEN CPU
    ELSE IF RSS \in line.contains THEN RSS
    ELSE IF TERMINATOR \in line.contains THEN TERMINATOR
    ELSE "other"

\* The lines of a block: those before the terminator line or the end.
RECURSIVE BlockOf(_)
BlockOf(lines) ==
    IF lines = <<>> \/ LineKind(Head(lines)) = TERMINATOR THEN <<>>
    ELSE <<Head(lines)>> \o BlockOf(Tail(lines))

\* The lines after a block and its terminator line.
RECURSIVE AfterBlock(_)
AfterBlock(lines) ==
    IF lines = <<>> THEN <<>>
    ELSE IF LineKind(Head(lines)) = TERMINATOR THEN Tail(lines)
    ELSE AfterBlock(Tail(lines))

Occurrences(block, f) == {k \in DOMAIN block : LineKind(block[k]) = f}
MissingField(block) == \E f \in Fields : Occurrences(block, f) = {}
MetricLines(block) == {k \in DOMAIN block : LineKind(block[k]) \in Fields}
EachFieldOnce(block) ==
    \A f \in Fields :
        /\ Cardinality(Occurrences(block, f)) = 1
        /\ \A k \in Occurrences(block, f) : block[k].number # NoNumber

\* The sections of an output as the router meets them.
RECURSIVE Sections(_)
Sections(lines) ==
    IF lines = <<>> THEN <<>>
    ELSE IF Route(Head(lines)) = NoPhase THEN Sections(Tail(lines))
    ELSE <<[phase |-> Route(Head(lines)), block |-> BlockOf(Tail(lines))]>>
         \o Sections(AfterBlock(Tail(lines)))

\* The output holds exactly one section of p, with each field once.
YieldsCompleteBlock(output, p) ==
    LET mine == SelectSeq(Sections(output), LAMBDA sec : sec.phase = p)
    IN  Len(mine) = 1 /\ EachFieldOnce(mine[1].block)

IsRow(r) == r.kind = "row"
DataRows(file) == SelectSeq(file, IsRow)

\* Main is about to read a section header of phase AtPhase.
AtHeader == pc = "while" /\ fp # <<>> /\ Route(Head(fp)) # NoPhase
AtPhase == Route(Head(fp))
AtBlock == BlockOf(Tail(fp))

Survived(inv) == inv.status = 0 /\ inv.read

\* The sum of a column over rows.
RECURSIVE SumUser(_)
SumUser(rows) == IF rows = <<>> THEN 0 ELSE Head(rows).user_time + SumUser(Tail(rows))
RECURSIVE SumSystem(_)
SumSystem(rows) == IF rows = <<>> THEN 0 ELSE Head(rows).system_time + SumSystem(Tail(rows))
RECURSIVE SumCpu(_)
SumCpu(rows) == IF rows = <<>> THEN 0 ELSE Head(rows).cpu_percent + SumCpu(Tail(rows))
RECURSIVE SumWall(_)
SumWall(rows) == IF rows = <<>> THEN 0 ELSE Head(rows).wallclock_time + SumWall(Tail(rows))
RECURSIVE SumRss(_)
SumRss(rows) == IF rows = <<>> THEN 0 ELSE Head(rows).max_rss + SumRss(Tail(rows))

\* The four float fields of p's average are the arithmetic means of the
\* columns of p's data rows (rows hold 1/1000 and 1/100 units).
FloatsAreMeanOfRows(p) ==
    LET rows == DataRows(csv[p])
        n == Len(rows)
    IN  /\ n > 0
        /\ avg[p].user_time = Norm(SumUser(rows), 1000 * n)
        /\ avg[p].system_time = Norm(SumSystem(rows), 1000 * n)
        /\ avg[p].cpu_usage = Norm(SumCpu(rows), 100 * n)
        /\ avg[p].wall_clock = Norm(SumWall(rows), 1000 * n)

\* Every iteration so far ran, was read, and gave one complete block of p:
\* p's samples came at the occurrence indices 1..n.
ConsecutiveSamples(p) ==
    /\ pc \in {"for", "return_0"}
    /\ invocations # <<>>
    /\ \A k \in DOMAIN invocations :
           /\ Survived(invocations[k])
           /\ YieldsCompleteBlock(invocations[k].output, p)

\* =================================================================
\* Properties
\* =================================================================

\* C1: when parse_metrics_block processes a block in which one of the five
\* required fields does not occur before the terminator line or the end of
\* the stream, every field of that phase's running average has the same
\* value after the block as before it.
C1_IncompleteBlockKeepsAverage ==
    [][(AtHeader /\ MissingField(AtBlock)) => avg'[AtPhase] = avg[AtPhase]]_vars

\* C2: when a block lacks one of the five required fields, no row is
\* appended to that phase's CSV table, whatever other lines (repeated
\* occurrences of the present fields included) the block contains.
C2_IncompleteBlockWritesNoRow ==
    [][(AtHeader /\ MissingField(AtBlock)) => csv'[AtPhase] = csv[AtPhase]]_vars

\* C3: whenever a phase's average is updated (its block holds a metric
\* line), the index used as the weight, current_count, is the number of
\* complete samples accepted for that phase so far, plus one.
C3_WeightIsAcceptedPlusOne ==
    (AtHeader /\ MetricLines(AtBlock) # {})
        => current_count = Len(DataRows(csv[AtPhase])) + 1

\* C4: after a run in which some invocations returned a non-zero exit code
\* and every other iteration gave a complete block of a phase, the float
\* fields of that phase's running average are the arithmetic means of the
\* samples of the surviving iterations.
C4_AverageOfSurvivors ==
    \A p \in Phases :
        ( /\ pc = "return_0"
          /\ \E k \in DOMAIN invocations : invocations[k].status # 0
          /\ \E k \in DOMAIN invocations : Survived(invocations[k])
          /\ \A k \in DOMAIN invocations :
                 \/ invocations[k].status # 0
                 \/ /\ Survived(invocations[k])
                    /\ YieldsCompleteBlock(invocations[k].output, p) )
        => FloatsAreMeanOfRows(p)

\* C5: starting from a zero average and fed n complete samples of one
\* phase at the consecutive occurrence indices 1..n, user_time, system_time,
\* cpu_percent and wall_clock of the average each equal (sum of the n sample
\* values)/n, in exact arithmetic.
C5_FloatMeanIsExact ==
    \A p \in Phases :
        ConsecutiveSamples(p) =>
            /\ Len(DataRows(csv[p])) = Len(invocations)
            /\ FloatsAreMeanOfRows(p)

\* C5 happens: three samples of one phase, not all alike, have been folded.
C5_Witness ==
    \E p \in Phases :
        /\ ConsecutiveSamples(p)
        /\ Len(invocations) = 3
        /\ DataRows(csv[p])[1].user_time # DataRows(csv[p])[3].user_time

\* C6 as claimed: fed n complete samples of one phase at the indices 1..n,
\* the integer running max_rss equals (sum of the n values) divided by n
\* with integer division.
C6_RssIsIntegerMean ==
    \A p \in Phases :
        ConsecutiveSamples(p) =>
            avg[p].max_rss =
                SumRss(DataRows(csv[p])) \div Len(DataRows(csv[p]))

\* C6 as amended: the integer running max_rss never exceeds the mean of the
\* n values and falls short of it by at most (n-1)/2; it equals their
\* integer mean for n <= 2.
C6_RssWithinTruncationError ==
    \A p \in Phases :
        ConsecutiveSamples(p) =>
            LET n == Len(DataRows(csv[p]))
                sum == SumRss(DataRows(csv[p]))
                rss == avg[p].max_rss
            IN  /\ n = Len(invocations)
                /\ n * rss <= sum
                /\ 2 * (sum - n * rss) <= n * (n - 1)
                /\ (n <= 2 => rss = sum \div n)

\* C6 happens: after three samples the running max_rss is below their
\* integer mean.
C6_Witness ==
    \E p \in Phases :
        /\ ConsecutiveSamples(p)
        /\ Len(invocations) = 3
        /\ avg[p].max_rss < SumRss(DataRows(csv[p])) \div 3

\* C7: an iteration whose invocation returns a non-zero exit status, or
\* whose captured output cannot be opened, appends no row to any table and
\* changes no average, and the loop goes on to the next iteration; so after
\* 3 iterations of which only the second failed, the table of each phase
\* with a complete block in iterations 1 and 3 holds exactly 2 data rows.
C7_FailedIterationSkipped ==
    /\ [][( \/ /\ pc = "system"
               /\ Len(invocations') = Len(invocations) + 1
               /\ invocations'[Len(invocations')].status # 0
            \/ /\ pc = "fopen_tmp"
               /\ pc' \notin {"fopen_tmp", "while"} )
          => /\ avg' = avg
             /\ csv' = csv
             /\ pc' = "for"
             /\ i' = i + 1]_vars
    /\ [](\A p \in Phases :
            ( /\ pc = "return_0"
              /\ Len(invocations) = 3
              /\ Survived(invocations[1])
              /\ invocations[2].status # 0
              /\ Survived(invocations[3])
              /\ YieldsCompleteBlock(invocations[1].output, p)
              /\ YieldsCompleteBlock(invocations[3].output, p) )
            => Len(DataRows(csv[p])) = 2)

\* C7 happens: a run of 3 iterations whose second invocation failed has
\* ended, with a complete block of some phase in iterations 1 and 3.
C7_Witness ==
    \E p \in Phases :
        /\ pc = "return_0"
        /\ Len(invocations) = 3
        /\ Survived(invocations[1])
        /\ invocations[2].status # 0
        /\ Survived(invocations[3])
        /\ YieldsCompleteBlock(invocations[1].output, p)
        /\ YieldsCompleteBlock(invocations[3].output, p)

\* The CSV column of a field, and what a metric line of that field puts
\* in it.
ColumnOf(row, f) ==
    CASE f = USER -> row.user_time
      [] f = SYSTEM -> row.system_time
      [] f = CPU -> row.cpu_percent
      [] f = WALL -> row.wallclock_time
      [] f = RSS -> row.max_rss

ColumnOfLine(line, f) ==
    CASE f = CPU -> FormatFloat(parse_cpu_line(line, CPU, F(0))[2], 2)
      [] f = RSS -> parse_rss(line, 0)[2]
      [] OTHER -> FormatFloat(parse_time_line(line, f, F(0))[2], 3)

LastOf(set) == CHOOSE k \in set : \A j \in set : j <= k

\* C8: parse_metrics_block reports a block as complete if and only if each
\* of the five known fields was matched at least once before the terminator
\* line or the end of the stream, however often each field occurs and
\* whatever unrelated lines the block holds.
C8_CompleteIffAllFiveMatched ==
    AtHeader =>
        ( parse_metrics_block(Tail(fp), avg[AtPhase], current_count).ret = 1
          <=> ~MissingField(AtBlock) )

\* C9: for a block that contains all five fields and in which one field
\* occurs twice before the terminator, a row is written to the phase's
\* table and its value for that field is the value of the later occurrence.
C9_LaterOccurrenceWins ==
    [][( /\ AtHeader
         /\ ~MissingField(AtBlock)
         /\ \E f \in Fields : Cardinality(Occurrences(AtBlock, f)) = 2 )
       => /\ Len(csv'[AtPhase]) = Len(csv[AtPhase]) + 1
          /\ \A f \in Fields :
                 Cardinality(Occurrences(AtBlock, f)) = 2 =>
                     ColumnOf(csv'[AtPhase][Len(csv'[AtPhase])], f)
                         = ColumnOfLine(AtBlock[LastOf(Occurrences(AtBlock, f))], f)
      ]_vars

\* C10: for each accepted sample of a phase, each of the five fields of the
\* phase's average is updated exactly once, folding in the value the
\* accepted sample carries for that field.
C10_OneUpdatePerAcceptedSample ==
    AtHeader =>
        LET r == parse_metrics_block(Tail(fp), avg[AtPhase], current_count)
            old == avg[AtPhase]
        IN  r.ret = 1 =>
              /\ r.avg.user_time =
                     calculate_new_average(old.user_time, current_count - 1,
                                           r.out.user_time)
              /\ r.avg.system_time =
                     calculate_new_average(old.system_time, current_count - 1,
                                           r.out.system_time)
              /\ r.avg.cpu_usage =
                     calculate_new_average(old.cpu_usage, current_count - 1,
                                           r.out.cpu_usage)
              /\ r.avg.wall_clock =
                     calculate_new_average(old.wall_clock, current_count - 1,
                                           r.out.wall_clock)
              /\ r.avg.max_rss =
                     rss_new_average(old.max_rss, current_count, r.out.max_rss)

\* The field of a Metrics record that a metric prefix fills.
MetricOf(m, f) ==
    CASE f = USER -> m.user_time
      [] f = SYSTEM -> m.system_time
      [] f = WALL -> m.wall_clock
      [] f = CPU -> m.cpu_usage
      [] f = RSS -> F(m.max_rss)

\* The milliseconds a time line stands for.
Milliseconds(line) ==
    IF line.unit \in {"s", "sec"} THEN FMulInt(1000, line.number)
    ELSE IF line.unit \in {"us", "µs", "microseconds"}
         THEN FDivInt(line.number, 1000)
    ELSE line.number

\* The first iteration's output held one section and has been read to its
\* end: the section's block, and its phase.
OneSectionRead ==
    /\ pc = "while"
    /\ fp = <<>>
    /\ current_count = 1
    /\ Len(Sections(tmp_output)) = 1
ReadBlock == Sections(tmp_output)[1].block
ReadPhase == Sections(tmp_output)[1].phase

\* C11: for a time field the normalized value in milliseconds is
\* number*1000 when the unit token is s or sec, number/1000 when it is us,
\* µs or microseconds, and the number unchanged when the unit is absent or
\* ms. (The first sample of a phase is its average.)
C11_UnitNormalization ==
    OneSectionRead =>
        \A f \in TimeFields :
          \A k \in Occurrences(ReadBlock, f) :
              ( /\ Cardinality(Occurrences(ReadBlock, f)) = 1
                /\ ReadBlock[k].number # NoNumber
                /\ ReadBlock[k].unit \in UnitTokens )
              => MetricOf(avg[ReadPhase], f) = Milliseconds(ReadBlock[k])

\* C12: when a line contains a metric prefix but no number can be parsed
\* after it, the field stays at its default zero and the found-field counter
\* is not incremented, so a block whose only occurrence of some field is
\* unparseable is reported incomplete (no row is written for it).
C12_UnparseableFieldNotCounted ==
    OneSectionRead =>
        \A f \in Fields :
          ( /\ Occurrences(ReadBlock, f) # {}
            /\ \A k \in Occurrences(ReadBlock, f) :
                   ReadBlock[k].number = NoNumber )
          => /\ MetricOf(avg[ReadPhase], f) = F(0)
             /\ DataRows(csv[ReadPhase]) = <<>>

\* C13: in every state after sink setup each phase CSV holds exactly one
\* header row and it is the first line, however many samples are accepted
\* and however many iterations run.
C13_OneHeaderFirst ==
    \A p \in Phases :
        (pc \in {"build", "for", "system", "fopen_tmp", "while", "return_0"}
           \/ build_status # -1)
        => /\ Len(csv[p]) >= 1
           /\ csv[p][1] = HeaderRow
           /\ \A k \in 2..Len(csv[p]) : csv[p][k].kind = "row"

\* C13 happens: a table holds its header and the rows of two samples.
C13_Witness ==
    \E p \in Phases : Len(DataRows(csv[p])) >= 2 /\ csv[p][1] = HeaderRow

\* The steps main can take from one place to the next.
ControlFlow ==
    { <<"check_args", "mkdir">>, <<"check_args", "return_1">>,
      <<"mkdir", "fopen_csv">>, <<"mkdir", "return_1">>,
      <<"fopen_csv", "build">>, <<"fopen_csv", "return_1">>,
      <<"build", "for">>, <<"build", "return_1">>,
      <<"for", "system">>, <<"for", "return_0">>,
      <<"system", "fopen_tmp">>, <<"system", "for">>,
      <<"fopen_tmp", "while">>, <<"fopen_tmp", "for">>,
      <<"while", "for">> }

\* C14: the run validates its arguments, then makes the output directory
\* and opens the sinks, then builds, then loops; when validation, directory
\* creation, the opening of a sink or the build fails the run ends with a
\* non-zero exit code, the executable is never invoked and no data row is
\* ever written.
C14_SetupFailureAborts ==
    /\ [][pc' # pc => <<pc, pc'>> \in ControlFlow]_vars
    /\ [](pc = "return_1" =>
            /\ invocations = <<>>
            /\ \A p \in Phases : DataRows(csv[p]) = <<>>)
    /\ [](check_args(argv)[1] # 0 => pc \in {"check_args", "return_1"})
    /\ [](build_status = 1 => pc = "return_1")
    /\ [](invocations # <<>> => build_status = 0)

\* C14 happens: the build failed after the sinks were opened, and the run
\* has ended with exit code 1.
C14_Witness ==
    /\ pc = "return_1"
    /\ build_status = 1
    /\ \A p \in Phases : csv[p] = <<HeaderRow>>

\* What is left of the loop: the iterations to go, the place within the
\* iteration, and the lines still to read. Triples are compared in
\* lexicographic order.
Stage ==
    CASE pc = "for" -> 3
      [] pc = "system" -> 2
      [] pc = "fopen_tmp" -> 1
      [] OTHER -> 0
Remaining ==
    IF pc = "return_0" THEN <<0, 0, 0>>
    ELSE <<num_iterations + 1 - i, Stage, IF pc = "while" THEN Len(fp) ELSE 0>>
Before(x, y) ==
    \/ x[1] < y[1]
    \/ x[1] = y[1] /\ x[2] < y[2]
    \/ x[1] = y[1] /\ x[2] = y[2] /\ x[3] < y[3]
InLoop == pc \in {"for", "system", "fopen_tmp", "while"}
\* Some step of the loop can be taken (a line that is there can always be
\* read: ReadLine has no other condition).
CanStep ==
    \/ ENABLED EnterIteration
    \/ ENABLED Invoke
    \/ ENABLED OpenOutput
    \/ pc = "while" /\ fp # <<>>
    \/ ENABLED CloseOutput
    \/ ENABLED Finalize

\* C15: given valid arguments, successful setup and build, and every
\* invocation exiting, the run makes exactly N invocation attempts, for
\* i = 1..N in order, however many of them fail (no retry, no early abort),
\* then reaches the end and exits with code 0. (Reaching the end: in the
\* loop main can always take a step, every step brings it nearer to the
\* end, and it leaves the loop only with exit code 0.)
C15_ExactlyNAttempts ==
    /\ [](pc \in {"for", "system"} => Len(invocations) = i - 1)
    /\ [](pc \in {"fopen_tmp", "while"} => Len(invocations) = i)
    /\ [](pc = "return_0" => Len(invocations) = num_iterations)
    /\ [](InLoop => (CanStep /\ i >= 1 /\ i <= num_iterations + 1))
    /\ [][InLoop =>
            /\ pc' \in {"for", "system", "fopen_tmp", "while", "return_0"}
            /\ (vars' # vars => Before(Remaining', Remaining))]_vars

\* C15 happens: a run of three iterations, some of them failed, has ended
\* with exit code 0.
C15_Witness ==
    /\ pc = "return_0"
    /\ num_iterations = 3
    /\ Len(invocations) = 3
    /\ \E k \in DOMAIN invocations : invocations[k].status # 0

\* C16: a line read by the router that contains none of the eight section
\* headers is consumed with no change to any average or table, and the
\* router goes on with the line after it.
C16_UnknownLineIgnored ==
    [][(pc = "while" /\ fp # <<>> /\ Route(Head(fp)) = NoPhase) =>
            /\ fp' = Tail(fp)
            /\ avg' = avg
            /\ csv' = csv
            /\ pc' = "while"]_vars

\* C16 happens: the first line of the first output is other text and has
\* been read; the header of a section is next.
C16_Witness ==
    /\ pc = "while"
    /\ i = 1
    /\ tmp_output = RepeatedMissing(reported)
    /\ fp = Tail(tmp_output)
    /\ Route(Head(tmp_output)) = NoPhase
    /\ Route(Head(fp)) = reported
    /\ \A p \in Phases : avg[p] = ZeroMetrics /\ csv[p] = <<HeaderRow>>

\* 10.000,5.000,75.00%,20.000,1024 in 1/1000, 1/1000, 1/100, 1/1000 and units.
InferenceCells == <<10000, 5000, 7500, 20000, 1024>>

\* C17: the output made of one "Inference Metrics" section with User time
\* 10 ms, System time 5 ms, Wall Clock Time 20 ms, CPU Usage 75.0% and
\* Max RSS 1024, ended by the terminator row, yields exactly one data row,
\* in the inference table, with the values 10, 5, 75, 20, 1024 in the column
\* order user_time, system_time, cpu_percent, wall clock, max_rss, and no
\* data row in the table of any other phase.
C17_InferenceScenario ==
    tmp_output = InferenceReport =>
        /\ \A p \in Phases \ {"inference"} : DataRows(csv[p]) = <<>>
        /\ fp = tmp_output => DataRows(csv["inference"]) = <<>>
        /\ fp # tmp_output =>
              /\ fp = <<>>
              /\ Len(DataRows(csv["inference"])) = 1
              /\ Cells(DataRows(csv["inference"])[1]) = InferenceCells
              /\ csv["inference"] = <<HeaderRow, DataRows(csv["inference"])[1]>>

\* C17 happens: the run that read that output has ended and the inference
\* table has its row.
C17_Witness ==
    /\ tmp_output = InferenceReport
    /\ pc = "return_0"
    /\ Len(csv["inference"]) = 2

\* C18: the build step is skipped when a prebuilt executable already exists
\* at the expected location: no build invocation happens before the
\* iteration loop starts.
C18_BuildSkippedWhenPrebuilt ==
    [][(pc = "build" /\ executable_exists) =>
            (build_status' = build_status /\ pc' = "for")]_vars

\* C19: routing a section header of phase P and parsing its block changes
\* only the average and the table of P; the averages and tables of the other
\* seven phases are unchanged, for each of the eight headers (each header
\* selects the average and table of exactly one phase).
C19_OnlyRoutedPhaseChanges ==
    /\ [](/\ Cardinality(Phases) = 8
          /\ \A p \in Phases :
                {q \in Phases : Route(HeaderLine(p)) = q} = {p})
    /\ [][AtHeader =>
            \A q \in Phases \ {AtPhase} :
                avg'[q] = avg[q] /\ csv'[q] = csv[q]]_vars

\* C19 happens: the first output held one section, it has been read, and
\* only its phase has an average and a row.
C19_Witness ==
    /\ pc = "while"
    /\ i = 1
    /\ fp = <<>>
    /\ tmp_output = Complete(reported, MaxVal)
    /\ avg[reported] # ZeroMetrics
    /\ Len(csv[reported]) = 2
    /\ \A q \in Phases \ {reported} :
          avg[q] = ZeroMetrics /\ csv[q] = <<HeaderRow>>

\* C20: parse_metrics_block is only ever called with currentCount >= 1: the
\* iteration counter is incremented before any output is parsed and is
\* never decremented, so the divisor of the integer RSS update is not zero
\* and the count given to calculate_new_average is not negative, in every
\* reachable state of a run.
C20_CountAtLeastOneWhenParsing ==
    /\ [](pc \in {"system", "fopen_tmp", "while"} =>
              current_count >= 1 /\ current_count = i)
    /\ [](AtHeader => current_count # 0 /\ current_count - 1 >= 0)
    /\ [][current_count' >= current_count]_vars

\* C20 happens: the first invocation failed, and a section header of the
\* second output is about to be routed with a count of 2.
C20_Witness ==
    /\ AtHeader
    /\ current_count = 2
    /\ invocations[1].status # 0

====
